---- MODULE Spec2Model ----
(***************************************************************************)
(* bookbot: main.py loads books/<title>.txt, counts its words and its      *)
(* lower-cased characters, formats a report and prints it.                 *)
(*                                                                         *)
(* A Python str is modelled as a sequence of characters, each character a  *)
(* one-element string.  "U2160" and "U2170" stand for the single code      *)
(* points U+2160 (ROMAN NUMERAL ONE) and U+2170 (SMALL ROMAN NUMERAL ONE). *)
(***************************************************************************)
EXTENDS Integers, Sequences, FiniteSets, TLC

(***************************************************************************)
(* Bounds of the model.                                                    *)
(***************************************************************************)
\* longest corpus read from a book file
MaxLen == 3
\* largest of the small counts in a mapping handed to Reporter directly
MaxCount == 1
\* largest limit passed to console_logger
MaxLimit == 4

(***************************************************************************)
(* Characters and the str methods the program uses.                       *)
(***************************************************************************)
\* the characters a book file is made of in this model
Alphabet == {"a", "A", "b", " ", "\n", "1", "U2160"}

\* str.isspace of one character, as str.split() uses it
IsSpace(c) == c \in {" ", "\n"}

\* str.isalpha of one character (categories Lu, Ll, Lt, Lm, Lo); U+2160 and
\* U+2170 are category Nl, so not alphabetic
IsAlphaChar(c) == c \in {"a", "A", "b"}

\* str.lower of one character: U+2160 has the lower-case mapping U+2170
Lower(c) ==
    CASE c = "A" -> "a"
      [] c = "U2160" -> "U2170"
      [] OTHER -> c

\* str(n) for n >= 0: the decimal digits of n
Digit(d) ==
    CASE d = 0 -> "0" [] d = 1 -> "1" [] d = 2 -> "2" [] d = 3 -> "3"
      [] d = 4 -> "4" [] d = 5 -> "5" [] d = 6 -> "6" [] d = 7 -> "7"
      [] d = 8 -> "8" [] d = 9 -> "9"

RECURSIVE Str(_)
Str(n) == IF n < 10 THEN <<Digit(n)>> ELSE Str(n \div 10) \o <<Digit(n % 10)>>

\* "".join(parts)
RECURSIVE Join(_)
Join(parts) == IF parts = <<>> THEN <<>> ELSE Head(parts) \o Join(Tail(parts))

(***************************************************************************)
(* CorpusAnalyser.                                                         *)
(***************************************************************************)
\* str.split() with no separator: skip a run of whitespace, then take the
\* characters up to the next whitespace as one token, until the end
RECURSIVE SkipSpace(_, _)
SkipSpace(s, i) == IF i <= Len(s) /\ IsSpace(s[i]) THEN SkipSpace(s, i + 1) ELSE i

RECURSIVE ScanToken(_, _)
ScanToken(s, i) == IF i <= Len(s) /\ ~IsSpace(s[i]) THEN ScanToken(s, i + 1) ELSE i

RECURSIVE SplitFrom(_, _)
SplitFrom(s, i) ==
    LET j == SkipSpace(s, i)
        k == ScanToken(s, j)
    IN  IF j > Len(s) THEN <<>> ELSE <<SubSeq(s, j, k - 1)>> \o SplitFrom(s, k)

Split(s) == SplitFrom(s, 1)

\* as len(self._corpus.split(" ")) would count: one more than the spaces
word_count_split_on_space(corpus_) ==
    Cardinality({i \in 1..Len(corpus_) : corpus_[i] = " "}) + 1

word_count(corpus_) == Len(Split(corpus_))

\* A dict is a sequence of <<key, value>> items in insertion order, keys
\* distinct.  dd[key] += 1 on a defaultdict(int): add one to an existing
\* key in place, or insert the key with 1 at the end.
HasKey(d, k) == \E i \in 1..Len(d) : d[i][1] = k

Increment(d, k) ==
    IF HasKey(d, k)
    THEN [i \in 1..Len(d) |-> IF d[i][1] = k THEN <<k, d[i][2] + 1>> ELSE d[i]]
    ELSE Append(d, <<k, 1>>)

RECURSIVE CountFrom(_, _, _)
CountFrom(s, i, dd) ==
    IF i > Len(s) THEN dd ELSE CountFrom(s, i + 1, Increment(dd, Lower(s[i])))

\* as a loop that skips whitespace would count
unique_character_count_no_space(corpus_) ==
    CountFrom(SelectSeq(corpus_, LAMBDA c : ~IsSpace(c)), 1, <<>>)

unique_character_count(corpus_) == CountFrom(corpus_, 1, <<>>)

(***************************************************************************)
(* Reporter.                                                               *)
(***************************************************************************)
\* sorted(items, reverse=True, key=count) is stable: an item goes after every
\* item already placed whose count is greater than or equal to its own
RECURSIVE InsertDescending(_, _)
InsertDescending(sorted, item) ==
    IF sorted = <<>> THEN <<item>>
    ELSE IF Head(sorted)[2] >= item[2]
         THEN <<Head(sorted)>> \o InsertDescending(Tail(sorted), item)
         ELSE <<item>> \o sorted

RECURSIVE SortFrom(_, _, _)
SortFrom(d, i, acc) ==
    IF i > Len(d) THEN acc ELSE SortFrom(d, i + 1, InsertDescending(acc, d[i]))

\* as sorted(d.items(), key=...) without reverse=True would order: ascending,
\* stable
RECURSIVE InsertAscending(_, _)
InsertAscending(sorted, item) ==
    IF sorted = <<>> THEN <<item>>
    ELSE IF Head(sorted)[2] <= item[2]
         THEN <<Head(sorted)>> \o InsertAscending(Tail(sorted), item)
         ELSE <<item>> \o sorted

RECURSIVE SortAscendingFrom(_, _, _)
SortAscendingFrom(d, i, acc) ==
    IF i > Len(d) THEN acc
    ELSE SortAscendingFrom(d, i + 1, InsertAscending(acc, d[i]))

_sort_dict_ascending(d) == SortAscendingFrom(d, 1, <<>>)

\* as sorted(d.items(), key=...)[::-1] would order: descending, the items of
\* equal count in reverse insertion order
_sort_dict_reversed(d) ==
    LET asc == _sort_dict_ascending(d)
    IN  [i \in 1..Len(asc) |-> asc[Len(asc) + 1 - i]]

_sort_dict_by_value(d) == SortFrom(d, 1, <<>>)

\* "The '" / "' character was found " / " times.\n"
LinePrefix == <<"T", "h", "e", " ", "'">>
LineMiddle ==
    <<"'", " ", "c", "h", "a", "r", "a", "c", "t", "e", "r", " ", "w", "a", "s",
      " ", "f", "o", "u", "n", "d", " ">>
LineSuffix == <<" ", "t", "i", "m", "e", "s", ".", "\n">>

\* f"The '{char}' character was found {n} times.\n"
CharacterLine(char, n) ==
    LinePrefix \o <<char>> \o LineMiddle \o Str(n) \o LineSuffix

\* the lines the generator yields, in the order of the sorted dict, the
\* non-alphabetic keys skipped
RECURSIVE YieldFrom(_, _)
YieldFrom(sorted_dict, i) ==
    IF i > Len(sorted_dict) THEN <<>>
    ELSE IF ~IsAlphaChar(sorted_dict[i][1]) THEN YieldFrom(sorted_dict, i + 1)
    ELSE <<CharacterLine(sorted_dict[i][1], sorted_dict[i][2])>>
           \o YieldFrom(sorted_dict, i + 1)

\* as the generator without its isalpha test would yield: a line for every key
_parse_character_dict_unfiltered(character_counts) ==
    LET sorted_dict == _sort_dict_by_value(character_counts)
    IN  [i \in 1..Len(sorted_dict) |->
           CharacterLine(sorted_dict[i][1], sorted_dict[i][2])]

_parse_character_dict(character_counts) ==
    YieldFrom(_sort_dict_by_value(character_counts), 1)

\* "--- Begin report of books/" / ".txt ---\n"
HeaderPrefix ==
    <<"-", "-", "-", " ", "B", "e", "g", "i", "n", " ", "r", "e", "p", "o", "r",
      "t", " ", "o", "f", " ", "b", "o", "o", "k", "s", "/">>
HeaderSuffix == <<".", "t", "x", "t", " ", "-", "-", "-", "\n">>
ln_skip == <<"\n">>
\* "--- End report ---"
ln_footer ==
    <<"-", "-", "-", " ", "E", "n", "d", " ", "r", "e", "p", "o", "r", "t", " ",
      "-", "-", "-">>
\* " words found in the document.\n"
WordCountSuffix ==
    <<" ", "w", "o", "r", "d", "s", " ", "f", "o", "u", "n", "d", " ", "i", "n",
      " ", "t", "h", "e", " ", "d", "o", "c", "u", "m", "e", "n", "t", ".", "\n">>

\* as write_report without ln_skip after the word count line would return
write_report_no_skip(title_, word_count_, character_counts) ==
    LET ln_header == HeaderPrefix \o title_ \o HeaderSuffix
        ln_word_count == Str(word_count_) \o WordCountSuffix
        ln_char_count == Join(_parse_character_dict(character_counts))
    IN  ln_header \o ln_word_count \o ln_char_count \o ln_skip \o ln_footer

write_report(title_, word_count_, character_counts) ==
    LET ln_header == HeaderPrefix \o title_ \o HeaderSuffix
        ln_word_count == Str(word_count_) \o WordCountSuffix
        ln_char_count == Join(_parse_character_dict(character_counts))
    IN  ln_header \o ln_word_count \o ln_skip \o ln_char_count \o ln_skip
          \o ln_footer

(***************************************************************************)
(* console_logger.                                                         *)
(***************************************************************************)
\* limit=None, or limit=n
NoLimit == [is_none |-> TRUE, n |-> 0]
Limit(n) == [is_none |-> FALSE, n |-> n]

\* text[:limit] for limit >= 0
SliceTo(text, n) == SubSeq(text, 1, IF n < Len(text) THEN n ELSE Len(text))

\* "[...]"
Marker == <<"[", ".", ".", ".", "]">>

\* what print(f"\n{text}", msg, end="\n\n") writes: the two arguments
\* separated by one space
console_logger(text, limit) ==
    LET text1 == IF limit.is_none THEN text ELSE SliceTo(text, limit.n)
        msg == IF ~limit.is_none /\ limit.n < Len(text1) THEN Marker ELSE <<>>
    IN  <<"\n">> \o text1 \o <<" ">> \o msg \o <<"\n", "\n">>

(***************************************************************************)
(* The program's state.                                                    *)
(***************************************************************************)
VARIABLES
    title,              \* the title handed to CorpusAnalyser
    exists,             \* the file system: books/<title>.txt is a regular file
    content,            \* the file system: the text of that file
    pc,                 \* where the run is
    f_open,             \* the file object f of _load_corpus is open
    opens,              \* calls of open() so far
    textbody,           \* _load_corpus's local
    pending,            \* the exception in flight inside the with block
    err,                \* the exception that reached the entry point
    corpus,             \* CorpusAnalyser._corpus
    r_title,            \* Reporter._title
    r_word_count,       \* Reporter._word_count
    r_character_counts, \* Reporter._character_counts
    report,             \* what write_report returned
    log_text,           \* console_logger's argument text
    log_limit,          \* console_logger's argument limit
    stdout              \* what has been printed

vars ==
    <<title, exists, content, pc, f_open, opens, textbody, pending, err, corpus,
      r_title, r_word_count, r_character_counts, report, log_text, log_limit,
      stdout>>

\* BOOK_TITLE = "frankenstein"
BOOK_TITLE == <<"f", "r", "a", "n", "k", "e", "n", "s", "t", "e", "i", "n">>

Titles == {BOOK_TITLE, <<"e", "1">>}

RECURSIVE SeqsUpTo(_, _)
SeqsUpTo(S, n) ==
    IF n = 0 THEN {<<>>}
    ELSE LET shorter == SeqsUpTo(S, n - 1)
         IN  shorter \cup {Append(s, c) : s \in shorter, c \in S}

Corpora == SeqsUpTo(Alphabet, MaxLen)

NoError == [type |-> "", msg |-> ""]
\* raise Exception("Specified title wasn't found.")
NotFound == [type |-> "Exception", msg |-> "Specified title wasn't found."]
\* what open() raises: an OSError (permission denied, the file removed since)
OpenErrors == {[type |-> "OSError", msg |-> "open"]}
\* what f.read() raises: an OSError, or a decoding error
ReadErrors ==
    {[type |-> "OSError", msg |-> "read"],
     [type |-> "UnicodeDecodeError", msg |-> "read"]}

Reporter_vars == <<r_title, r_word_count, r_character_counts, report>>
Loader_vars == <<f_open, opens, textbody, pending>>
Log_vars == <<log_text, log_limit, stdout>>
Fs_vars == <<title, exists, content>>

\* main(): CorpusAnalyser(BOOK_TITLE) is about to be constructed
Init ==
    /\ title \in Titles
    /\ exists \in BOOLEAN
    /\ content \in (IF exists THEN Corpora ELSE {<<>>})
    /\ pc = "main"
    /\ f_open = FALSE
    /\ opens = 0
    /\ textbody = <<>>
    /\ pending = NoError
    /\ err = NoError
    /\ corpus = <<>>
    /\ r_title = <<>>
    /\ r_word_count = 0
    /\ r_character_counts = <<>>
    /\ report = <<>>
    /\ log_text = <<>>
    /\ log_limit = NoLimit
    /\ stdout = <<>>

\* as _path_to_corpus without its os.path.isfile test would go on
_path_to_corpus_unchecked ==
    /\ pc = "main"
    /\ err' = err
    /\ pc' = "resolved"
    /\ UNCHANGED <<Fs_vars, Loader_vars, corpus, Reporter_vars, Log_vars>>

\* _path_to_corpus: raise when books/<title>.txt is no file, else return it
_path_to_corpus ==
    /\ pc = "main"
    /\ \/ /\ ~exists
          /\ err' = NotFound
          /\ pc' = "failed"
       \/ /\ exists
          /\ err' = err
          /\ pc' = "resolved"
    /\ UNCHANGED <<Fs_vars, Loader_vars, corpus, Reporter_vars, Log_vars>>

\* with open(str(p)) as f: open() returns the file, or raises
OpenFile ==
    /\ pc = "resolved"
    /\ opens' = opens + 1
    /\ \/ /\ f_open' = TRUE
          /\ pc' = "opened"
          /\ err' = err
       \/ /\ \E e \in OpenErrors : err' = e
          /\ f_open' = f_open
          /\ pc' = "failed"
    /\ UNCHANGED <<Fs_vars, textbody, pending, corpus, Reporter_vars, Log_vars>>

\* textbody = f.read(): the whole text, or an exception inside the with block
ReadFile ==
    /\ pc = "opened"
    /\ \/ /\ textbody' = content
          /\ pending' = pending
       \/ /\ \E e \in ReadErrors : pending' = e
          /\ textbody' = textbody
    /\ pc' = "exit"
    /\ UNCHANGED <<Fs_vars, f_open, opens, err, corpus, Reporter_vars, Log_vars>>

\* as f = open(...); textbody = f.read(); f.close() would leave the loader:
\* the close is skipped when read raises
WithExitLeak ==
    /\ pc = "exit"
    /\ f_open' = (pending # NoError)
    /\ IF pending = NoError
       THEN /\ corpus' = textbody
            /\ err' = err
            /\ pc' = "loaded"
       ELSE /\ err' = pending
            /\ corpus' = corpus
            /\ pc' = "failed"
    /\ pending' = NoError
    /\ UNCHANGED <<Fs_vars, opens, textbody, Reporter_vars, Log_vars>>

\* leaving the with block: f.__exit__ closes the file, then either the
\* exception goes on to the caller or _load_corpus returns textbody, which
\* __init__ stores in self._corpus
WithExit ==
    /\ pc = "exit"
    /\ f_open' = FALSE
    /\ IF pending = NoError
       THEN /\ corpus' = textbody
            /\ err' = err
            /\ pc' = "loaded"
       ELSE /\ err' = pending
            /\ corpus' = corpus
            /\ pc' = "failed"
    /\ pending' = NoError
    /\ UNCHANGED <<Fs_vars, opens, textbody, Reporter_vars, Log_vars>>

\* CorpusAnalyser.report: Reporter(title, word_count(), unique_character_count())
Report ==
    /\ pc = "loaded"
    /\ r_title' = title
    /\ r_word_count' = word_count(corpus)
    /\ r_character_counts' = unique_character_count(corpus)
    /\ pc' = "reporter"
    /\ UNCHANGED <<Fs_vars, Loader_vars, err, corpus, report, Log_vars>>

\* Reporter.write_report
WriteReport ==
    /\ pc = "reporter"
    /\ report' = write_report(r_title, r_word_count, r_character_counts)
    /\ pc' = "reported"
    /\ UNCHANGED
         <<Fs_vars, Loader_vars, err, corpus, r_title, r_word_count,
           r_character_counts, Log_vars>>

Limits == {NoLimit} \cup {Limit(n) : n \in 0..MaxLimit}

\* main(): console_logger(analysis.report), or console_logger(analysis.corpus,
\* limit=...)
ConsoleLogger ==
    /\ pc = "reported"
    /\ \E text \in {report, corpus}, limit \in Limits :
          /\ log_text' = text
          /\ log_limit' = limit
          /\ stdout' = stdout \o console_logger(text, limit)
    /\ pc' = "done"
    /\ UNCHANGED <<Fs_vars, Loader_vars, err, corpus, Reporter_vars>>

Next ==
    \/ _path_to_corpus
    \/ OpenFile
    \/ ReadFile
    \/ WithExit
    \/ Report
    \/ WriteReport
    \/ ConsoleLogger

Spec == Init /\ [][Next]_vars

(***************************************************************************)
(* Reporter on its own: Reporter(title, word_count, character_counts) is   *)
(* constructed with any mapping, then write_report is called.              *)
(***************************************************************************)
\* the keys of a mapping handed to Reporter
Keys == {"a", "b", " ", "1"}

\* the counts of a mapping handed to Reporter
Counts == (0..MaxCount) \cup {12}

\* the word counts handed to Reporter
WordCounts == {0, 12}

\* every dict over Keys: the items in any insertion order, the keys distinct
RECURSIVE Dicts(_)
Dicts(n) ==
    IF n = 0 THEN {<<>>}
    ELSE LET shorter == Dicts(n - 1)
         IN  shorter \cup
               {Append(d, <<k, c>>) :
                  d \in {e \in shorter : Len(e) = n - 1},
                  k \in Keys, c \in Counts}

Mappings ==
    {d \in Dicts(Cardinality(Keys)) :
       \A i, j \in 1..Len(d) : d[i][1] = d[j][1] => i = j}

InitReporter ==
    /\ title \in Titles
    /\ exists = TRUE
    /\ content = <<>>
    /\ pc = "reporter"
    /\ f_open = FALSE
    /\ opens = 0
    /\ textbody = <<>>
    /\ pending = NoError
    /\ err = NoError
    /\ corpus = <<>>
    /\ r_title = title
    /\ r_word_count \in WordCounts
    /\ r_character_counts \in Mappings
    /\ report = <<>>
    /\ log_text = <<>>
    /\ log_limit = NoLimit
    /\ stdout = <<>>

NextReporter == WriteReport

SpecReporter == InitReporter /\ [][NextReporter]_vars

(***************************************************************************)
(* Reading a report back: what the properties below say about its text.    *)
(***************************************************************************)
\* s.split("\n"): the pieces between the newlines
NewlinePositions(s) == {i \in 1..Len(s) : s[i] = "\n"}

\* the position of the k-th newline of s; 0 before the first, Len(s) + 1
\* after the last
NewlineAt(s, k) ==
    LET NL == NewlinePositions(s)
    IN  IF k = 0 THEN 0
        ELSE IF k > Cardinality(NL) THEN Len(s) + 1
        ELSE CHOOSE p \in NL : Cardinality({q \in NL : q < p}) = k - 1

SplitOnNewline(s) ==
    [k \in 1..(Cardinality(NewlinePositions(s)) + 1) |->
       SubSeq(s, NewlineAt(s, k - 1) + 1, NewlineAt(s, k) - 1)]

ReportLines == SplitOnNewline(report)

DigitChars == <<"0", "1", "2", "3", "4", "5", "6", "7", "8", "9">>

\* a decimal numeral without a superfluous leading zero
IsNumeral(s) ==
    /\ s # <<>>
    /\ \A i \in 1..Len(s) : \E d \in 1..10 : DigitChars[d] = s[i]
    /\ Len(s) > 1 => s[1] # "0"

RECURSIVE NumeralValue(_)
NumeralValue(s) ==
    IF s = <<>> THEN 0
    ELSE 10 * NumeralValue(SubSeq(s, 1, Len(s) - 1))
           + (CHOOSE d \in 1..10 : DigitChars[d] = s[Len(s)]) - 1

\* line (without its newline) reads "The '<c>' character was found <n> times."
LineDigits(line) == SubSeq(line, 29, Len(line) - 7)

IsCharacterLine(line) ==
    /\ Len(line) >= 36
    /\ SubSeq(line, 1, 5) = LinePrefix
    /\ SubSeq(line, 7, 28) = LineMiddle
    /\ SubSeq(line, Len(line) - 6, Len(line)) \o <<"\n">> = LineSuffix
    /\ IsNumeral(LineDigits(line))

LineChar(line) == line[6]
LineCount(line) == NumeralValue(LineDigits(line))

\* the lines of the report between its two empty lines
CharLines ==
    LET L == ReportLines
    IN  IF Len(L) >= 5 THEN SubSeq(L, 4, Len(L) - 2) ELSE <<>>

\* the positions of the alphabetic keys in Reporter's mapping
AlphaItems ==
    {i \in 1..Len(r_character_counts) : IsAlphaChar(r_character_counts[i][1])}

Analysed == pc \in {"reporter", "reported", "done"}
Written == pc \in {"reported", "done"}

(***************************************************************************)
(* Properties.                                                             *)
(***************************************************************************)
RECURSIVE SumValues(_)
SumValues(d) == IF d = <<>> THEN 0 ELSE Head(d)[2] + SumValues(Tail(d))

\* C1: the counts of the mapping unique_character_count returns add up to the
\* length of the corpus, whatever characters the corpus holds.
C1_CountsSumToLength ==
    Analysed => SumValues(r_character_counts) = Len(corpus)

C1_Witness ==
    /\ pc = "reporter"
    /\ corpus = <<"A", " ", "1">>
    /\ SumValues(r_character_counts) = 3

\* the first positions of the maximal runs of non-whitespace characters
RunStarts(s) ==
    {i \in 1..Len(s) : ~IsSpace(s[i]) /\ (i = 1 \/ IsSpace(s[i - 1]))}

\* C2: word_count returns the number of maximal runs of non-whitespace
\* characters: leading, trailing and repeated whitespace add no token, and an
\* empty or whitespace-only corpus has 0 words.
C2_WordCountIsRuns ==
    Analysed =>
      /\ r_word_count = Cardinality(RunStarts(corpus))
      /\ (\A i \in 1..Len(corpus) : IsSpace(corpus[i])) => r_word_count = 0

C2_Witness ==
    /\ pc = "reporter"
    /\ corpus = <<" ", "a", "\n">>
    /\ r_word_count = 1

\* the key the claim files a character under: a letter under its lower-case
\* form, any other character under itself
ClaimedKey(c) ==
    IF IsAlphaChar(c) THEN (IF c = "A" THEN "a" ELSE c) ELSE c

\* C3: every key's count is the number of corpus positions filed under it,
\* letters being filed under their lower-case form (so no upper-case letter is
\* a key) and every non-alphabetic character under its own literal value.
C3_CountsPerKey ==
    Analysed =>
      /\ \A i \in 1..Len(r_character_counts) :
           LET k == r_character_counts[i][1]
           IN  /\ k # "A"
               /\ r_character_counts[i][2]
                    = Cardinality({p \in 1..Len(corpus) : ClaimedKey(corpus[p]) = k})
      /\ \A p \in 1..Len(corpus) : HasKey(r_character_counts, ClaimedKey(corpus[p]))

\* C4: the report is the header line, the word count line, an empty line, one
\* line per alphabetic key, an empty line and the footer without a newline
\* after it; with no words and no characters it still has the header, the
\* line "0 words found in the document." and the footer.
C4_ReportStructure ==
    Written =>
      LET L == ReportLines
          k == Cardinality(AlphaItems)
      IN  /\ Len(L) = k + 5
          /\ L[1] \o <<"\n">> = HeaderPrefix \o r_title \o HeaderSuffix
          /\ Len(L[2]) > Len(WordCountSuffix) - 1
          /\ LET digits == SubSeq(L[2], 1, Len(L[2]) - (Len(WordCountSuffix) - 1))
             IN  /\ IsNumeral(digits)
                 /\ NumeralValue(digits) = r_word_count
                 /\ L[2] \o <<"\n">> = digits \o WordCountSuffix
          /\ L[3] = <<>>
          /\ \A i \in 4..(k + 3) : IsCharacterLine(L[i])
          /\ L[k + 4] = <<>>
          /\ L[k + 5] = ln_footer
          /\ (r_word_count = 0 /\ r_character_counts = <<>>) =>
               /\ L[2] \o <<"\n">> = <<"0">> \o WordCountSuffix
               /\ Len(L) = 5

C4_Witness ==
    /\ pc = "reported"
    /\ r_word_count = 0
    /\ r_character_counts = <<>>
    /\ Len(ReportLines) = 5

\* C5: the report has exactly one character line for each alphabetic key of
\* the mapping, with that key's count, and none for a non-alphabetic key.
C5_OneLinePerAlphaKey ==
    Written =>
      LET CL == CharLines
      IN  /\ \A j \in 1..Len(CL) : IsCharacterLine(CL[j])
          /\ Len(CL) = Cardinality(AlphaItems)
          /\ \A i \in AlphaItems :
               \E j \in 1..Len(CL) :
                  /\ LineChar(CL[j]) = r_character_counts[i][1]
                  /\ LineCount(CL[j]) = r_character_counts[i][2]
                  /\ \A h \in 1..Len(CL) :
                       LineChar(CL[h]) = r_character_counts[i][1] => h = j
          /\ \A j \in 1..Len(CL) : IsAlphaChar(LineChar(CL[j]))

C5_Witness ==
    /\ pc = "reported"
    /\ r_character_counts = <<<<" ", 12>>, <<"a", 1>>, <<"1", 12>>>>
    /\ Len(CharLines) = 1

\* C6: the counts of the character lines never increase down the report,
\* also when a filtered non-alphabetic key has a count in between.
C6_LinesDescending ==
    Written =>
      LET CL == CharLines
      IN  \A i, j \in 1..Len(CL) :
             (i < j /\ IsCharacterLine(CL[i]) /\ IsCharacterLine(CL[j]))
               => LineCount(CL[i]) >= LineCount(CL[j])

C6_Witness ==
    /\ pc = "reported"
    /\ r_character_counts = <<<<"b", 0>>, <<" ", 1>>, <<"a", 12>>>>
    /\ Len(CharLines) = 2
    /\ LineChar(CharLines[1]) = "a"

\* an OSError handler catches the exception
IsOSError(e) == e.type = "OSError"

C8_FileClosedOnExit ==
    /\ pc \in {"loaded", "reporter", "reported", "done", "failed"} => ~f_open
    /\ pc = "failed" =>
         /\ err # NoError
         /\ corpus = <<>>
         /\ r_character_counts = <<>>
         /\ report = <<>>
         /\ stdout = <<>>

C8_Witness ==
    /\ pc = "failed"
    /\ opens = 1
    /\ err \in ReadErrors
    /\ content # <<>>
    /\ ~f_open

\* the first position of the corpus counted under key k
FirstSeen(k) ==
    CHOOSE p \in 1..Len(corpus) :
       /\ Lower(corpus[p]) = k
       /\ \A q \in 1..(p - 1) : Lower(corpus[q]) # k

\* C9: in the report of a corpus, two alphabetic characters with equal counts
\* are listed in the order of their first occurrence in the corpus.
C9_TiesInFirstSeenOrder ==
    Written =>
      LET CL == CharLines
      IN  \A i, j \in 1..Len(CL) :
             (i < j /\ LineCount(CL[i]) = LineCount(CL[j]))
               => FirstSeen(LineChar(CL[i])) < FirstSeen(LineChar(CL[j]))

C9_Witness ==
    /\ pc = "reported"
    /\ corpus = <<"b", "A">>
    /\ Len(CharLines) = 2
    /\ LineChar(CharLines[1]) = "b"
    /\ LineChar(CharLines[2]) = "a"

\* C10: with a limit, console_logger prints the first limit characters and
\* the marker "[...]" exactly when the text was longer than the limit; without
\* a limit it prints the whole text and no marker.
C10_TruncationFlagged ==
    pc = "done" =>
      stdout =
        IF log_limit.is_none
        THEN <<"\n">> \o log_text \o <<" ", "\n", "\n">>
        ELSE <<"\n">> \o SliceTo(log_text, log_limit.n) \o <<" ">>
               \o (IF Len(log_text) > log_limit.n THEN Marker ELSE <<>>)
               \o <<"\n", "\n">>

====
